---- MODULE Spec2Model ----
(***************************************************************************)
(* State-machine model of the Simple Blog API (src/main.py): registration, *)
(* login with the per-username login limiter, JWT bearer tokens, and the   *)
(* role/ownership guarded post operations.  Every request handler is one   *)
(* atomic action (the handlers are coroutines without an await, so the     *)
(* event loop runs each to completion).  Time is counted in whole seconds; *)
(* a handler reads the clock once.                                         *)
(***************************************************************************)
EXTENDS Integers, Sequences, FiniteSets, TLC

(* ---------------------------- program constants ------------------------ *)
ACCESS_TOKEN_EXPIRE_MINUTES == 15
RATE_WINDOW_SECONDS == 60
RATE_MAX_ATTEMPTS == 5

SECRET_KEY == "your-secret-key-change-this-in-production"
ValidRoles == {"reader", "author"}

(* ------------------------------- bounds -------------------------------- *)
LimiterHorizon == 81
AuthHorizon == 61
TokenHorizon == 901
MaxHeld == 1
MaxLog == 6
MaxPosts == 2
MaxLogins == 2
TokenMaxPosts == 1
MaxRequests == 3
MaxLoginRequests == 6
StampHorizon == 1
PostLogins == 1
PostCap == 2

NoValue == "None"

(* ------------------------------- inputs -------------------------------- *)
Usernames == {"alice", "bob"}
Salts == {"salt1"}
Passwords == {"secure123", "secure456", "wrong_password"}

VARIABLES
    users_db,        \* username -> [password_hash, role, user_id]
    posts_db,        \* post_id -> [title, content, author_id, created_at]
    login_attempts,  \* username -> [attempts, last_attempt_time]
    user_counter,
    post_counter,
    now,             \* the clock read by time.time() / datetime.utcnow()
    held,            \* bearer tokens the clients hold
    response,        \* the last request together with its response
    obs,             \* observer of the login attempts (history, not program state)
    tasks            \* the requests received and not yet answered, then answered

vars == <<users_db, posts_db, login_attempts, user_counter, post_counter,
          now, held, response, obs, tasks>>

(* ------------------------------ utilities ------------------------------ *)
\* A partial map with key k bound to v.
Put(f, k, v) == (k :> v) @@ f

\* A partial map without key k.
Without(f, k) == [x \in DOMAIN f \ {k} |-> f[x]]

\* pwd_context.hash: a salted one-way hash; the digest binds salt and password.
hash_password(password, salt) ==
    [scheme |-> "bcrypt", salt |-> salt, digest |-> <<salt, password>>]

\* Mutant: only the scheme and salt of the hash are compared.
verify_password_ignores_digest(plain_password, hashed_password) ==
    hash_password(plain_password, hashed_password.salt).salt = hashed_password.salt

\* pwd_context.verify: recompute with the stored salt and compare digests.
verify_password(plain_password, hashed_password) ==
    hash_password(plain_password, hashed_password.salt).digest = hashed_password.digest

(* ------------------------------ the limiter ---------------------------- *)
\* Mutant: the cap compared with <= instead of <.
check_rate_limit_cap_off_by_one(la, username, current_time) ==
    IF username \notin DOMAIN la
    THEN [ok |-> TRUE,
          la |-> Put(la, username, [attempts |-> 0, last_attempt_time |-> current_time])]
    ELSE IF current_time - la[username].last_attempt_time > RATE_WINDOW_SECONDS
    THEN [ok |-> TRUE,
          la |-> Put(la, username, [attempts |-> 0, last_attempt_time |-> current_time])]
    ELSE IF la[username].attempts <= RATE_MAX_ATTEMPTS
    THEN [ok |-> TRUE, la |-> la]
    ELSE [ok |-> FALSE, la |-> la]

\* check_rate_limit: the verdict and the limiter map it leaves behind.
\* Mutant: the state is reset from 60 seconds on, not after 60 seconds.
check_rate_limit_resets_at_sixty(la, username, current_time) ==
    IF username \notin DOMAIN la
    THEN [ok |-> TRUE,
          la |-> Put(la, username, [attempts |-> 0, last_attempt_time |-> current_time])]
    ELSE IF current_time - la[username].last_attempt_time >= RATE_WINDOW_SECONDS
    THEN [ok |-> TRUE,
          la |-> Put(la, username, [attempts |-> 0, last_attempt_time |-> current_time])]
    ELSE IF la[username].attempts < RATE_MAX_ATTEMPTS
    THEN [ok |-> TRUE, la |-> la]
    ELSE [ok |-> FALSE, la |-> la]

check_rate_limit(la, username, current_time) ==
    IF username \notin DOMAIN la
    THEN [ok |-> TRUE,
          la |-> Put(la, username, [attempts |-> 0, last_attempt_time |-> current_time])]
    ELSE IF current_time - la[username].last_attempt_time > RATE_WINDOW_SECONDS
    THEN [ok |-> TRUE,
          la |-> Put(la, username, [attempts |-> 0, last_attempt_time |-> current_time])]
    ELSE IF la[username].attempts < RATE_MAX_ATTEMPTS
    THEN [ok |-> TRUE, la |-> la]
    ELSE [ok |-> FALSE, la |-> la]

\* Mutant: one counter for all: the attempt is counted for every username
\* the limiter knows.
increment_login_attempts_for_everyone(la, username, current_time) ==
    [u \in DOMAIN la \cup {username} |->
        [attempts |-> IF u \in DOMAIN la THEN la[u].attempts + 1 ELSE 1,
         last_attempt_time |-> current_time]]

increment_login_attempts(la, username, current_time) ==
    IF username \notin DOMAIN la
    THEN Put(la, username, [attempts |-> 1, last_attempt_time |-> current_time])
    ELSE Put(la, username, [attempts |-> la[username].attempts + 1,
                            last_attempt_time |-> current_time])

(* ------------------------------- tokens -------------------------------- *)
\* jwt.encode with HS256: the payload and a MAC of it under the key.
jwt_encode(payload, key) ==
    [wellformed |-> TRUE, payload |-> payload, sig |-> <<key, payload>>]

create_access_token(data, current_time) ==
    jwt_encode(data @@ [exp |-> current_time + ACCESS_TOKEN_EXPIRE_MINUTES * 60],
               SECRET_KEY)

\* The token of a response that carries none.
NoToken == [wellformed |-> FALSE, payload |-> [none |-> "None"], sig |-> <<>>]

\* A string that is no JWT at all.
MalformedToken ==
    [wellformed |-> FALSE, payload |-> [malformed |-> "token"], sig |-> <<"here">>]

\* Mutant: a token counts as expired from the second its exp names.
jwt_decode_expires_early(token, key, current_time) ==
    IF ~token.wellformed THEN [ok |-> FALSE]
    ELSE IF token.sig # <<key, token.payload>> THEN [ok |-> FALSE]
    ELSE IF "exp" \in DOMAIN token.payload /\ token.payload.exp <= current_time
    THEN [ok |-> FALSE]
    ELSE [ok |-> TRUE, payload |-> token.payload]

\* Mutant: the signature is not verified.
jwt_decode_unverified(token, key, current_time) ==
    IF ~token.wellformed THEN [ok |-> FALSE]
    ELSE IF "exp" \in DOMAIN token.payload /\ token.payload.exp < current_time
    THEN [ok |-> FALSE]
    ELSE [ok |-> TRUE, payload |-> token.payload]

\* jwt.decode: JWTError on a malformed token, a signature that is not the MAC of
\* the payload under the key, or an exp claim in the past; else the payload.
jwt_decode(token, key, current_time) ==
    IF ~token.wellformed THEN [ok |-> FALSE]
    ELSE IF token.sig # <<key, token.payload>> THEN [ok |-> FALSE]
    ELSE IF "exp" \in DOMAIN token.payload /\ token.payload.exp < current_time
    THEN [ok |-> FALSE]
    ELSE [ok |-> TRUE, payload |-> token.payload]

(* ---------------------------- access control --------------------------- *)
\* get_current_user: the principal of a bearer token, or the 401 raised.
get_current_user(token, users, current_time) ==
    LET decoded == jwt_decode(token, SECRET_KEY, current_time) IN
    IF ~decoded.ok
    THEN [ok |-> FALSE, status |-> 401, detail |-> "Invalid authentication credentials"]
    ELSE IF "sub" \notin DOMAIN decoded.payload
    THEN [ok |-> FALSE, status |-> 401, detail |-> "Invalid authentication credentials"]
    ELSE IF decoded.payload.sub \notin DOMAIN users
    THEN [ok |-> FALSE, status |-> 401, detail |-> "User not found"]
    ELSE [ok |-> TRUE, status |-> 200, detail |-> "ok",
          user |-> [user_id |-> users[decoded.payload.sub].user_id,
                    username |-> decoded.payload.sub,
                    role |-> users[decoded.payload.sub].role]]

\* Mutant: any authenticated principal passes the role check.
require_author_role_any_role(token, users, current_time) ==
    get_current_user(token, users, current_time)

\* require_author_role: get_current_user, then 403 unless the role is author.
require_author_role(token, users, current_time) ==
    LET current_user == get_current_user(token, users, current_time) IN
    IF ~current_user.ok THEN current_user
    ELSE IF current_user.user.role # "author"
    THEN [ok |-> FALSE, status |-> 403, detail |-> "Only authors can perform this action"]
    ELSE current_user

(* ------------------------------ post store ----------------------------- *)
\* posts_db is a dict: a sequence of items in insertion order, keyed by post_id.
PostIds(posts) == {posts[i].post_id : i \in 1..Len(posts)}

PostAt(posts, post_id) ==
    posts[CHOOSE i \in 1..Len(posts) : posts[i].post_id = post_id]

\* Mutant: assigning to a key that is there moves the item to the end.
DictSet_moves_to_end(posts, item) ==
    Append(SelectSeq(posts, LAMBDA e : e.post_id # item.post_id), item)

\* posts_db[post_id] = item: in place when the key is there, else at the end.
DictSet(posts, item) ==
    IF item.post_id \in PostIds(posts)
    THEN [i \in 1..Len(posts) |->
             IF posts[i].post_id = item.post_id THEN item ELSE posts[i]]
    ELSE Append(posts, item)

\* Mutant: popitem(), the item inserted last is the one removed.
DictPop_removes_last(posts, post_id) == SubSeq(posts, 1, Len(posts) - 1)

\* posts_db.pop(post_id)
DictPop(posts, post_id) == SelectSeq(posts, LAMBDA e : e.post_id # post_id)

\* The username whose user_id is author_id, found by scanning users_db.
AuthorUsername(users, author_id) ==
    LET found == {u \in DOMAIN users : users[u].user_id = author_id} IN
    IF found = {} THEN NoValue
    ELSE CHOOSE u \in found : \A v \in found : users[u].user_id <= users[v].user_id

(* ------------------------------- handlers ------------------------------ *)
\* Mutant: the attempt is counted only once the credentials have failed.
login_result_counts_failures_only(users, la, username, password, current_time) ==
    LET chk == check_rate_limit(la, username, current_time) IN
    IF ~chk.ok
    THEN [la |-> chk.la, status |-> 429,
          detail |-> "Too many login attempts. Please try again later.",
          token |-> NoToken]
    ELSE LET la2 == increment_login_attempts(chk.la, username, current_time) IN
         IF username \notin DOMAIN users
         THEN [la |-> la2, status |-> 401,
               detail |-> "Invalid username or password", token |-> NoToken]
         ELSE IF ~verify_password(password, users[username].password_hash)
         THEN [la |-> la2, status |-> 401,
               detail |-> "Invalid username or password", token |-> NoToken]
         ELSE [la |-> chk.la, status |-> 200, detail |-> "bearer",
               token |-> create_access_token([sub |-> username], current_time)]

\* Mutant: an unknown username is answered before the attempt is counted.
login_result_unknown_user_uncounted(users, la, username, password, current_time) ==
    LET chk == check_rate_limit(la, username, current_time) IN
    IF ~chk.ok
    THEN [la |-> chk.la, status |-> 429,
          detail |-> "Too many login attempts. Please try again later.",
          token |-> NoToken]
    ELSE LET la2 == increment_login_attempts(chk.la, username, current_time) IN
         IF username \notin DOMAIN users
         THEN [la |-> chk.la, status |-> 401,
               detail |-> "Invalid username or password", token |-> NoToken]
         ELSE IF ~verify_password(password, users[username].password_hash)
         THEN [la |-> la2, status |-> 401,
               detail |-> "Invalid username or password", token |-> NoToken]
         ELSE [la |-> la2, status |-> 200, detail |-> "bearer",
               token |-> create_access_token([sub |-> username], current_time)]

\* Mutant: a refused attempt is counted as well.
login_result_counts_rejected(users, la, username, password, current_time) ==
    LET chk == check_rate_limit(la, username, current_time) IN
    IF ~chk.ok
    THEN [la |-> Put(chk.la, username,
                    [chk.la[username] EXCEPT !.attempts = @ + 1]),
          status |-> 429,
          detail |-> "Too many login attempts. Please try again later.",
          token |-> NoToken]
    ELSE LET la2 == increment_login_attempts(chk.la, username, current_time) IN
         IF username \notin DOMAIN users
         THEN [la |-> la2, status |-> 401,
               detail |-> "Invalid username or password", token |-> NoToken]
         ELSE IF ~verify_password(password, users[username].password_hash)
         THEN [la |-> la2, status |-> 401,
               detail |-> "Invalid username or password", token |-> NoToken]
         ELSE [la |-> la2, status |-> 200, detail |-> "bearer",
               token |-> create_access_token([sub |-> username], current_time)]

\* Mutant: a refused attempt renews the stored timestamp.
login_result_rejected_restamps(users, la, username, password, current_time) ==
    LET chk == check_rate_limit(la, username, current_time) IN
    IF ~chk.ok
    THEN [la |-> Put(chk.la, username,
                    [chk.la[username] EXCEPT !.last_attempt_time = current_time]),
          status |-> 429,
          detail |-> "Too many login attempts. Please try again later.",
          token |-> NoToken]
    ELSE LET la2 == increment_login_attempts(chk.la, username, current_time) IN
         IF username \notin DOMAIN users
         THEN [la |-> la2, status |-> 401,
               detail |-> "Invalid username or password", token |-> NoToken]
         ELSE IF ~verify_password(password, users[username].password_hash)
         THEN [la |-> la2, status |-> 401,
               detail |-> "Invalid username or password", token |-> NoToken]
         ELSE [la |-> la2, status |-> 200, detail |-> "bearer",
               token |-> create_access_token([sub |-> username], current_time)]

\* login_user as a function of the state it reads: the limiter map it leaves
\* and the response.
login_result(users, la, username, password, current_time) ==
    LET chk == check_rate_limit(la, username, current_time) IN
    IF ~chk.ok
    THEN [la |-> chk.la, status |-> 429,
          detail |-> "Too many login attempts. Please try again later.",
          token |-> NoToken]
    ELSE LET la2 == increment_login_attempts(chk.la, username, current_time) IN
         IF username \notin DOMAIN users
         THEN [la |-> la2, status |-> 401,
               detail |-> "Invalid username or password", token |-> NoToken]
         ELSE IF ~verify_password(password, users[username].password_hash)
         THEN [la |-> la2, status |-> 401,
               detail |-> "Invalid username or password", token |-> NoToken]
         ELSE [la |-> la2, status |-> 200, detail |-> "bearer",
               token |-> create_access_token([sub |-> username], current_time)]

\* The client that receives a token keeps it, or not.
ClientKeeps(token) ==
    held' \in {held} \cup {(held \ {d}) \cup {token} : d \in held}
                     \cup (IF Cardinality(held) < MaxHeld
                           THEN {held \cup {token}} ELSE {})

login_user(username, password) ==
    LET r == login_result(users_db, login_attempts, username, password, now) IN
    /\ login_attempts' = r.la
    /\ response' = [op |-> "login", username |-> username, password |-> password,
                    status |-> r.status, detail |-> r.detail, token |-> r.token]
    /\ IF r.status = 200 THEN ClientKeeps(r.token) ELSE UNCHANGED held
    /\ UNCHANGED <<users_db, posts_db, user_counter, post_counter, now>>

\* Mutant: no check that the username is taken; the identity is overwritten.
register_user_overwrites(username, password, role, salt) ==
    /\ IF role \notin ValidRoles
       THEN /\ response' = [op |-> "register", username |-> username,
                            password |-> password, role |-> role, status |-> 400,
                            detail |-> "Role must be either 'reader' or 'author'"]
            /\ UNCHANGED <<users_db, user_counter>>
       ELSE /\ users_db' = Put(users_db, username,
                               [password_hash |-> hash_password(password, salt),
                                role |-> role, user_id |-> user_counter])
            /\ user_counter' = user_counter + 1
            /\ response' = [op |-> "register", username |-> username,
                            password |-> password, role |-> role, status |-> 200,
                            detail |-> "registered successfully"]
    /\ UNCHANGED <<posts_db, login_attempts, post_counter, now, held>>

\* Mutant: the role is validated after the userId has been taken.
register_user_late_role_check(username, password, role, salt) ==
    /\ IF username \in DOMAIN users_db
       THEN /\ response' = [op |-> "register", username |-> username,
                            password |-> password, role |-> role, status |-> 400,
                            detail |-> "Username already registered"]
            /\ UNCHANGED <<users_db, user_counter>>
       ELSE IF role \notin ValidRoles
       THEN /\ response' = [op |-> "register", username |-> username,
                            password |-> password, role |-> role, status |-> 400,
                            detail |-> "Role must be either 'reader' or 'author'"]
            /\ user_counter' = user_counter + 1
            /\ UNCHANGED users_db
       ELSE /\ users_db' = Put(users_db, username,
                               [password_hash |-> hash_password(password, salt),
                                role |-> role, user_id |-> user_counter])
            /\ user_counter' = user_counter + 1
            /\ response' = [op |-> "register", username |-> username,
                            password |-> password, role |-> role, status |-> 200,
                            detail |-> "registered successfully"]
    /\ UNCHANGED <<posts_db, login_attempts, post_counter, now, held>>

\* Mutant: a registration clears the limiter state of the username.
register_user_clears_attempts(username, password, role, salt) ==
    /\ IF role \notin ValidRoles
       THEN /\ response' = [op |-> "register", username |-> username,
                            password |-> password, role |-> role, status |-> 400,
                            detail |-> "Role must be either 'reader' or 'author'"]
            /\ UNCHANGED <<users_db, user_counter, login_attempts>>
       ELSE IF username \in DOMAIN users_db
       THEN /\ response' = [op |-> "register", username |-> username,
                            password |-> password, role |-> role, status |-> 400,
                            detail |-> "Username already registered"]
            /\ UNCHANGED <<users_db, user_counter, login_attempts>>
       ELSE /\ users_db' = Put(users_db, username,
                               [password_hash |-> hash_password(password, salt),
                                role |-> role, user_id |-> user_counter])
            /\ user_counter' = user_counter + 1
            /\ login_attempts' = Without(login_attempts, username)
            /\ response' = [op |-> "register", username |-> username,
                            password |-> password, role |-> role, status |-> 200,
                            detail |-> "registered successfully"]
    /\ UNCHANGED <<posts_db, post_counter, now, held>>

\* Mutant: user_counter is not advanced after a registration.
register_user_shares_ids(username, password, role, salt) ==
    /\ IF role \notin ValidRoles
       THEN /\ response' = [op |-> "register", username |-> username,
                            password |-> password, role |-> role, status |-> 400,
                            detail |-> "Role must be either 'reader' or 'author'"]
            /\ UNCHANGED <<users_db, user_counter>>
       ELSE IF username \in DOMAIN users_db
       THEN /\ response' = [op |-> "register", username |-> username,
                            password |-> password, role |-> role, status |-> 400,
                            detail |-> "Username already registered"]
            /\ UNCHANGED <<users_db, user_counter>>
       ELSE /\ users_db' = Put(users_db, username,
                               [password_hash |-> hash_password(password, salt),
                                role |-> role, user_id |-> user_counter])
            /\ UNCHANGED user_counter
            /\ response' = [op |-> "register", username |-> username,
                            password |-> password, role |-> role, status |-> 200,
                            detail |-> "registered successfully"]
    /\ UNCHANGED <<posts_db, login_attempts, post_counter, now, held>>

register_user(username, password, role, salt) ==
    /\ IF role \notin ValidRoles
       THEN /\ response' = [op |-> "register", username |-> username,
                            password |-> password, role |-> role, status |-> 400,
                            detail |-> "Role must be either 'reader' or 'author'"]
            /\ UNCHANGED <<users_db, user_counter>>
       ELSE IF username \in DOMAIN users_db
       THEN /\ response' = [op |-> "register", username |-> username,
                            password |-> password, role |-> role, status |-> 400,
                            detail |-> "Username already registered"]
            /\ UNCHANGED <<users_db, user_counter>>
       ELSE /\ users_db' = Put(users_db, username,
                               [password_hash |-> hash_password(password, salt),
                                role |-> role, user_id |-> user_counter])
            /\ user_counter' = user_counter + 1
            /\ response' = [op |-> "register", username |-> username,
                            password |-> password, role |-> role, status |-> 200,
                            detail |-> "registered successfully"]
    /\ UNCHANGED <<posts_db, login_attempts, post_counter, now, held>>

get_all_posts(token) ==
    LET current_user == get_current_user(token, users_db, now) IN
    /\ response' =
           IF ~current_user.ok
           THEN [op |-> "list", status |-> current_user.status,
                 detail |-> current_user.detail]
           ELSE [op |-> "list", status |-> 200, detail |-> "ok",
                 body |-> [i \in 1..Len(posts_db) |->
                              [post_id |-> posts_db[i].post_id,
                               title |-> posts_db[i].title,
                               content |-> posts_db[i].content,
                               author |-> AuthorUsername(users_db, posts_db[i].author_id),
                               created_at |-> posts_db[i].created_at]]]
    /\ UNCHANGED <<users_db, posts_db, login_attempts, user_counter, post_counter,
                   now, held>>

\* Mutant: a post needs a title; an empty one is refused.
create_post_needs_title(token, title, content) ==
    LET current_user == require_author_role(token, users_db, now) IN
    /\ IF ~current_user.ok
       THEN /\ response' = [op |-> "create",
                            status |-> current_user.status,
                            detail |-> current_user.detail]
            /\ UNCHANGED <<posts_db, post_counter>>
       ELSE IF title = ""
       THEN /\ response' = [op |-> "create", status |-> 422,
                            detail |-> "title must not be empty"]
            /\ UNCHANGED <<posts_db, post_counter>>
       ELSE /\ posts_db' = DictSet(posts_db,
                                   [post_id |-> post_counter, title |-> title,
                                    content |-> content,
                                    author_id |-> current_user.user.user_id,
                                    created_at |-> now])
            /\ post_counter' = post_counter + 1
            /\ response' = [op |-> "create", status |-> 200,
                            detail |-> "Post created successfully",
                            post_id |-> post_counter, title |-> title]
    /\ UNCHANGED <<users_db, login_attempts, user_counter, now, held>>

\* Mutant: the new post_id is the number of stored posts plus one.
create_post_reuses_ids(token, title, content) ==
    LET current_user == require_author_role(token, users_db, now) IN
    /\ IF ~current_user.ok
       THEN /\ response' = [op |-> "create",
                            status |-> current_user.status,
                            detail |-> current_user.detail]
            /\ UNCHANGED <<posts_db, post_counter>>
       ELSE /\ posts_db' = DictSet(posts_db,
                                   [post_id |-> Len(posts_db) + 1, title |-> title,
                                    content |-> content,
                                    author_id |-> current_user.user.user_id,
                                    created_at |-> now])
            /\ post_counter' = post_counter + 1
            /\ response' = [op |-> "create", status |-> 200,
                            detail |-> "Post created successfully",
                            post_id |-> Len(posts_db) + 1, title |-> title]
    /\ UNCHANGED <<users_db, login_attempts, user_counter, now, held>>

create_post(token, title, content) ==
    LET current_user == require_author_role(token, users_db, now) IN
    /\ IF ~current_user.ok
       THEN /\ response' = [op |-> "create",
                            status |-> current_user.status,
                            detail |-> current_user.detail]
            /\ UNCHANGED <<posts_db, post_counter>>
       ELSE /\ posts_db' = DictSet(posts_db,
                                   [post_id |-> post_counter, title |-> title,
                                    content |-> content,
                                    author_id |-> current_user.user.user_id,
                                    created_at |-> now])
            /\ post_counter' = post_counter + 1
            /\ response' = [op |-> "create", status |-> 200,
                            detail |-> "Post created successfully",
                            post_id |-> post_counter, title |-> title]
    /\ UNCHANGED <<users_db, login_attempts, user_counter, now, held>>

\* Mutant: both fields are written, a field absent from the request as None.
update_post_overwrites_absent(token, post_id, title, content) ==
    LET current_user == require_author_role(token, users_db, now)
        request == [op |-> "update", post_id |-> post_id]
    IN
    /\ IF ~current_user.ok
       THEN /\ response' = request @@ [status |-> current_user.status,
                                       detail |-> current_user.detail]
            /\ UNCHANGED posts_db
       ELSE IF post_id \notin PostIds(posts_db)
       THEN /\ response' = request @@ [status |-> 404, detail |-> "Post not found"]
            /\ UNCHANGED posts_db
       ELSE IF PostAt(posts_db, post_id).author_id # current_user.user.user_id
       THEN /\ response' = request @@ [status |-> 403,
                                       detail |-> "You can only update your own posts"]
            /\ UNCHANGED posts_db
       ELSE LET old == PostAt(posts_db, post_id)
                new == [old EXCEPT !.title = title, !.content = content]
            IN /\ posts_db' = DictSet(posts_db, new)
               /\ response' = request @@ [status |-> 200,
                                          detail |-> "Post updated successfully"]
    /\ UNCHANGED <<users_db, login_attempts, user_counter, post_counter, now, held>>

\* Mutant: the post is looked up before the role is checked.
update_post_looks_up_first(token, post_id, title, content) ==
    LET authenticated == get_current_user(token, users_db, now)
        current_user == require_author_role(token, users_db, now)
        request == [op |-> "update", post_id |-> post_id]
    IN
    /\ IF ~authenticated.ok
       THEN /\ response' = request @@ [status |-> authenticated.status,
                                       detail |-> authenticated.detail]
            /\ UNCHANGED posts_db
       ELSE IF post_id \notin PostIds(posts_db)
       THEN /\ response' = request @@ [status |-> 404, detail |-> "Post not found"]
            /\ UNCHANGED posts_db
       ELSE IF ~current_user.ok
       THEN /\ response' = request @@ [status |-> current_user.status,
                                       detail |-> current_user.detail]
            /\ UNCHANGED posts_db
       ELSE IF PostAt(posts_db, post_id).author_id # current_user.user.user_id
       THEN /\ response' = request @@ [status |-> 403,
                                       detail |-> "You can only update your own posts"]
            /\ UNCHANGED posts_db
       ELSE LET old == PostAt(posts_db, post_id)
                titled == IF title # NoValue THEN [old EXCEPT !.title = title] ELSE old
                new == IF content # NoValue
                       THEN [titled EXCEPT !.content = content] ELSE titled
            IN /\ posts_db' = DictSet(posts_db, new)
               /\ response' = request @@ [status |-> 200,
                                          detail |-> "Post updated successfully"]
    /\ UNCHANGED <<users_db, login_attempts, user_counter, post_counter, now, held>>

\* Mutant: no ownership check; any author updates any post.
update_post_any_author(token, post_id, title, content) ==
    LET current_user == require_author_role(token, users_db, now)
        request == [op |-> "update", post_id |-> post_id]
    IN
    /\ IF ~current_user.ok
       THEN /\ response' = request @@ [status |-> current_user.status,
                                       detail |-> current_user.detail]
            /\ UNCHANGED posts_db
       ELSE IF post_id \notin PostIds(posts_db)
       THEN /\ response' = request @@ [status |-> 404, detail |-> "Post not found"]
            /\ UNCHANGED posts_db
       ELSE LET old == PostAt(posts_db, post_id)
                titled == IF title # NoValue THEN [old EXCEPT !.title = title] ELSE old
                new == IF content # NoValue
                       THEN [titled EXCEPT !.content = content] ELSE titled
            IN /\ posts_db' = DictSet(posts_db, new)
               /\ response' = request @@ [status |-> 200,
                                          detail |-> "Post updated successfully"]
    /\ UNCHANGED <<users_db, login_attempts, user_counter, post_counter, now, held>>

update_post(token, post_id, title, content) ==
    LET current_user == require_author_role(token, users_db, now)
        request == [op |-> "update", post_id |-> post_id]
    IN
    /\ IF ~current_user.ok
       THEN /\ response' = request @@ [status |-> current_user.status,
                                       detail |-> current_user.detail]
            /\ UNCHANGED posts_db
       ELSE IF post_id \notin PostIds(posts_db)
       THEN /\ response' = request @@ [status |-> 404, detail |-> "Post not found"]
            /\ UNCHANGED posts_db
       ELSE IF PostAt(posts_db, post_id).author_id # current_user.user.user_id
       THEN /\ response' = request @@ [status |-> 403,
                                       detail |-> "You can only update your own posts"]
            /\ UNCHANGED posts_db
       ELSE LET old == PostAt(posts_db, post_id)
                titled == IF title # NoValue THEN [old EXCEPT !.title = title] ELSE old
                new == IF content # NoValue
                       THEN [titled EXCEPT !.content = content] ELSE titled
            IN /\ posts_db' = DictSet(posts_db, new)
               /\ response' = request @@ [status |-> 200,
                                          detail |-> "Post updated successfully"]
    /\ UNCHANGED <<users_db, login_attempts, user_counter, post_counter, now, held>>

\* Mutant: deleting a post that is not there is answered as a success.
delete_post_missing_is_done(token, post_id) ==
    LET current_user == require_author_role(token, users_db, now)
        request == [op |-> "delete", post_id |-> post_id]
    IN
    /\ IF ~current_user.ok
       THEN /\ response' = request @@ [status |-> current_user.status,
                                       detail |-> current_user.detail]
            /\ UNCHANGED posts_db
       ELSE IF post_id \notin PostIds(posts_db)
       THEN /\ response' = request @@ [status |-> 200,
                                       detail |-> "Post deleted successfully",
                                       title |-> NoValue]
            /\ UNCHANGED posts_db
       ELSE IF PostAt(posts_db, post_id).author_id # current_user.user.user_id
       THEN /\ response' = request @@ [status |-> 403,
                                       detail |-> "You can only delete your own posts"]
            /\ UNCHANGED posts_db
       ELSE /\ posts_db' = DictPop(posts_db, post_id)
            /\ response' = request @@ [status |-> 200,
                                       detail |-> "Post deleted successfully",
                                       title |-> PostAt(posts_db, post_id).title]
    /\ UNCHANGED <<users_db, login_attempts, user_counter, post_counter, now, held>>

delete_post(token, post_id) ==
    LET current_user == require_author_role(token, users_db, now)
        request == [op |-> "delete", post_id |-> post_id]
    IN
    /\ IF ~current_user.ok
       THEN /\ response' = request @@ [status |-> current_user.status,
                                       detail |-> current_user.detail]
            /\ UNCHANGED posts_db
       ELSE IF post_id \notin PostIds(posts_db)
       THEN /\ response' = request @@ [status |-> 404, detail |-> "Post not found"]
            /\ UNCHANGED posts_db
       ELSE IF PostAt(posts_db, post_id).author_id # current_user.user.user_id
       THEN /\ response' = request @@ [status |-> 403,
                                       detail |-> "You can only delete your own posts"]
            /\ UNCHANGED posts_db
       ELSE /\ posts_db' = DictPop(posts_db, post_id)
            /\ response' = request @@ [status |-> 200,
                                       detail |-> "Post deleted successfully",
                                       title |-> PostAt(posts_db, post_id).title]
    /\ UNCHANGED <<users_db, login_attempts, user_counter, post_counter, now, held>>

get_current_user_info(token) ==
    LET current_user == get_current_user(token, users_db, now) IN
    /\ response' =
           IF ~current_user.ok
           THEN [op |-> "whoami", status |-> current_user.status,
                 detail |-> current_user.detail]
           ELSE [op |-> "whoami", status |-> 200, detail |-> "ok",
                 body |-> current_user.user]
    /\ UNCHANGED <<users_db, posts_db, login_attempts, user_counter, post_counter,
                   now, held>>

\* Time passes between requests.
Tick(d) ==
    /\ now' = now + d
    /\ UNCHANGED <<users_db, posts_db, login_attempts, user_counter, post_counter,
                   held, response>>

(* ------------------------------- observer ------------------------------ *)
\* What an onlooker of a username's login attempts writes down (history, not
\* program state):
\*   start   the time of the first attempt ever made for the username
\*   kind    "wrong" while every attempt so far carried a wrong password,
\*           "right" while every attempt carried the registered one, else "mixed"
\*   open    the attempts so far are of one kind and were all made within
\*           RATE_WINDOW_SECONDS of start
\*   log     the statuses answered to the first MaxLog attempts, while open
\*   first   the time of the attempt that created or reset the limiter state
\*   recent  the times of the attempts admitted in the last RATE_WINDOW_SECONDS
NoObs == [start |-> -1, kind |-> "none", open |-> TRUE, log |-> <<>>,
          first |-> -1, recent |-> <<>>]

ObsOf(u) == IF u \in DOMAIN obs THEN obs[u] ELSE NoObs

WrongPassword(username, password) ==
    \/ username \notin DOMAIN users_db
    \/ ~verify_password(password, users_db[username].password_hash)

\* The onlooker of the limiter's windows.
ObserveWindow(username, password) ==
    LET chk == check_rate_limit(login_attempts, username, now)
        o == ObsOf(username)
        fresh == SelectSeq(o.recent, LAMBDA t : now - t <= RATE_WINDOW_SECONDS)
    IN obs' = Put(obs, username,
                  [o EXCEPT !.first = IF chk.la # login_attempts THEN now ELSE o.first,
                            !.recent = IF chk.ok THEN Append(fresh, now) ELSE fresh])

\* The onlooker of the first attempts made for a username.
ObserveLog(username, password) ==
    LET r == login_result(users_db, login_attempts, username, password, now)
        o == ObsOf(username)
        start == IF o.start < 0 THEN now ELSE o.start
        this == IF WrongPassword(username, password) THEN "wrong" ELSE "right"
        kind == IF o.kind \in {"none", this} THEN this ELSE "mixed"
        open == /\ o.open
                /\ kind # "mixed"
                /\ now - start <= RATE_WINDOW_SECONDS
    IN obs' = Put(obs, username,
                  [o EXCEPT !.start = start,
                            !.kind = kind,
                            !.open = open,
                            !.log = IF open /\ Len(o.log) < MaxLog
                                    THEN Append(o.log, r.status) ELSE o.log])

(* ---------------------------- specifications --------------------------- *)
Init ==
    /\ users_db = <<>>
    /\ posts_db = <<>>
    /\ login_attempts = <<>>
    /\ user_counter = 1
    /\ post_counter = 1
    /\ now = 0
    /\ held = {}
    /\ response = [op |-> "none", status |-> 0]
    /\ obs = <<>>
    /\ tasks = <<>>

LimiterUsers == {"alice"}
LimiterPasswords == {"secure123", "wrong_password"}
LimiterDeltas == {20, 61}

RegisterL ==
    \E u \in LimiterUsers :
        register_user(u, "secure123", "reader", "salt1") /\ UNCHANGED <<obs, tasks>>

LoginL ==
    \E u \in LimiterUsers, p \in LimiterPasswords :
        login_user(u, p) /\ ObserveWindow(u, p) /\ UNCHANGED tasks

TickL ==
    \E d \in LimiterDeltas :
        now + d <= LimiterHorizon /\ Tick(d) /\ UNCHANGED <<obs, tasks>>

NextLimiter == RegisterL \/ LoginL \/ TickL

SpecLimiter == Init /\ [][NextLimiter]_vars

LoginB ==
    \E u \in LimiterUsers, p \in LimiterPasswords :
        login_user(u, p) /\ ObserveLog(u, p) /\ UNCHANGED tasks

NextBurst == RegisterL \/ LoginB \/ TickL

SpecBurst == Init /\ [][NextBurst]_vars

(* Login, two users, across a limiter window. *)
Roles == {"reader", "author", "admin"}
AuthPasswords == {"secure123", "secure456"}
AuthDeltas == {61}

RegisterA ==
    \E u \in Usernames, p \in AuthPasswords :
        register_user(u, p, "reader", "salt1") /\ UNCHANGED <<obs, tasks>>

LoginA ==
    \E u \in Usernames, p \in AuthPasswords : login_user(u, p) /\ UNCHANGED <<obs, tasks>>

TickA ==
    \E d \in AuthDeltas : now + d <= AuthHorizon /\ Tick(d) /\ UNCHANGED <<obs, tasks>>

NextAuth == RegisterA \/ LoginA \/ TickA

SpecAuth == Init /\ [][NextAuth]_vars

(* Registration with every role and password, two users. *)
RegisterR ==
    \E u \in Usernames, p \in AuthPasswords, r \in Roles :
        register_user(u, p, r, "salt1") /\ UNCHANGED <<obs, tasks>>

LoginR ==
    \E u \in Usernames, p \in AuthPasswords :
        /\ u \in DOMAIN login_attempts => login_attempts[u].attempts < MaxLogins
        /\ login_user(u, p)
        /\ UNCHANGED <<obs, tasks>>

WhoAmIR == \E t \in held : get_current_user_info(t) /\ UNCHANGED <<obs, tasks>>

NextRegister == RegisterR \/ LoginR \/ WhoAmIR

SpecRegister == Init /\ [][NextRegister]_vars

(* The whole API, two users, while no time passes. *)
Titles == {"T"}
Contents == {"C"}
NewTitles == {NoValue, "T2"}
NewContents == {NoValue, "C2"}

\* The password each user of the unit tests registers with.
PasswordOf(u) == IF u = "alice" THEN "secure123" ELSE "secure456"

Register ==
    \E u \in Usernames, r \in Roles :
        register_user(u, PasswordOf(u), r, "salt1") /\ UNCHANGED <<obs, tasks>>

Login ==
    \E u \in Usernames, p \in AuthPasswords :
        /\ u \in DOMAIN login_attempts => login_attempts[u].attempts < MaxLogins
        /\ login_user(u, p)
        /\ UNCHANGED <<obs, tasks>>

ListPosts == \E t \in held : get_all_posts(t) /\ UNCHANGED <<obs, tasks>>

CreatePost ==
    \E t \in held, title \in Titles, content \in Contents :
        post_counter <= MaxPosts /\ create_post(t, title, content) /\ UNCHANGED <<obs, tasks>>

UpdatePost ==
    \E t \in held, id \in 1..MaxPosts, title \in NewTitles, content \in NewContents :
        update_post(t, id, title, content) /\ UNCHANGED <<obs, tasks>>

DeletePost ==
    \E t \in held, id \in 1..MaxPosts : delete_post(t, id) /\ UNCHANGED <<obs, tasks>>

WhoAmI == \E t \in held : get_current_user_info(t) /\ UNCHANGED <<obs, tasks>>

Next ==
    \/ Register \/ Login \/ ListPosts \/ CreatePost \/ UpdatePost \/ DeletePost
    \/ WhoAmI

Spec == Init /\ [][Next]_vars

(* The whole API for one login user, while tokens expire. *)
TokenDeltas == {900, 901}

LoginT ==
    \E p \in AuthPasswords : login_user("alice", p) /\ UNCHANGED <<obs, tasks>>

CreatePostT ==
    \E t \in held :
        post_counter <= TokenMaxPosts /\ create_post(t, "T", "C") /\ UNCHANGED <<obs, tasks>>

UpdatePostT ==
    \E t \in held, id \in 1..TokenMaxPosts :
        update_post(t, id, "T2", NoValue) /\ UNCHANGED <<obs, tasks>>

DeletePostT ==
    \E t \in held, id \in 1..TokenMaxPosts : delete_post(t, id) /\ UNCHANGED <<obs, tasks>>

TickT ==
    \E d \in TokenDeltas : now + d <= TokenHorizon /\ Tick(d) /\ UNCHANGED <<obs, tasks>>

NextToken ==
    \/ Register \/ LoginT \/ ListPosts \/ CreatePostT \/ UpdatePostT
    \/ DeletePostT \/ WhoAmI \/ TickT

SpecToken == Init /\ [][NextToken]_vars

(* The protected operations called with the bearer strings a client can  *)
(* present without having logged in, next to the tokens login issued.    *)

\* No JWT, a JWT signed with another key, and JWTs signed with the key of the
\* source that carry no subject, a subject that never registers, or a past
\* expiry.
ForgedTokens ==
    { MalformedToken,
      jwt_encode([sub |-> "alice", exp |-> TokenHorizon], "another-key"),
      jwt_encode([exp |-> TokenHorizon], SECRET_KEY),
      jwt_encode([sub |-> "mallory", exp |-> TokenHorizon], SECRET_KEY),
      jwt_encode([sub |-> "alice", exp |-> -1], SECRET_KEY) }

Tokens == held \cup ForgedTokens

LoginG ==
    \E p \in AuthPasswords :
        /\ "alice" \in DOMAIN login_attempts =>
               login_attempts["alice"].attempts < MaxLogins
        /\ login_user("alice", p)
        /\ UNCHANGED <<obs, tasks>>

ListPostsG == \E t \in Tokens : get_all_posts(t) /\ UNCHANGED <<obs, tasks>>

CreatePostG ==
    \E t \in Tokens :
        post_counter <= TokenMaxPosts /\ create_post(t, "T", "C") /\ UNCHANGED <<obs, tasks>>

UpdatePostG ==
    \E t \in Tokens, id \in 1..TokenMaxPosts :
        update_post(t, id, "T2", NoValue) /\ UNCHANGED <<obs, tasks>>

DeletePostG ==
    \E t \in Tokens, id \in 1..TokenMaxPosts : delete_post(t, id) /\ UNCHANGED <<obs, tasks>>

WhoAmIG == \E t \in Tokens : get_current_user_info(t) /\ UNCHANGED <<obs, tasks>>

NextGuard ==
    \/ Register \/ LoginG \/ ListPostsG \/ CreatePostG \/ UpdatePostG
    \/ DeletePostG \/ WhoAmIG

SpecGuard == Init /\ [][NextGuard]_vars

(* The post operations for two users who log in with their own passwords, *)
(* while no time passes, next to an onlooker who writes down, for every    *)
(* post_id handed out, who created the post and whether it is still there. *)

\* The principal a request is made as (None when the token is refused).
CallerOf(t) ==
    LET current_user == get_current_user(t, users_db, now) IN
    IF current_user.ok THEN current_user.user.username ELSE NoValue

ObserveCreate(t) ==
    obs' = IF response'.status = 200
           THEN Put(obs, response'.post_id,
                    [creator |-> CallerOf(t), alive |-> TRUE])
           ELSE obs

ObserveDelete(id) ==
    obs' = IF response'.status = 200 /\ id \in DOMAIN obs
           THEN Put(obs, id, [obs[id] EXCEPT !.alive = FALSE])
           ELSE obs

LoginP ==
    \E u \in Usernames :
        /\ u \in DOMAIN login_attempts => login_attempts[u].attempts < PostLogins
        /\ login_user(u, PasswordOf(u))
        /\ UNCHANGED <<obs, tasks>>

CreatePostP ==
    \E t \in held, title \in Titles, content \in Contents :
        /\ post_counter <= PostCap
        /\ create_post(t, title, content)
        /\ ObserveCreate(t)
        /\ UNCHANGED tasks

UpdatePostP ==
    \E t \in held, id \in 1..PostCap, title \in NewTitles :
        update_post(t, id, title, NoValue) /\ UNCHANGED <<obs, tasks>>

DeletePostP ==
    \E t \in held, id \in 1..PostCap : delete_post(t, id) /\ ObserveDelete(id) /\ UNCHANGED tasks

NextPosts ==
    \/ Register \/ LoginP \/ ListPosts \/ CreatePostP \/ UpdatePostP
    \/ DeletePostP

SpecPosts == Init /\ [][NextPosts]_vars

(* The post operations of one user, who logs in once, while the clock *)
(* moves between them.                                               *)
StampDeltas == {1}

RegisterS ==
    \E r \in Roles : register_user("alice", "secure123", r, "salt1") /\ UNCHANGED <<obs, tasks>>

LoginS ==
    /\ "alice" \notin DOMAIN login_attempts
    /\ login_user("alice", "secure123")
    /\ UNCHANGED <<obs, tasks>>

UpdatePostS ==
    \E t \in held, id \in 1..PostCap, title \in NewTitles, content \in NewContents :
        update_post(t, id, title, content) /\ UNCHANGED <<obs, tasks>>

TickS ==
    \E d \in StampDeltas : now + d <= StampHorizon /\ Tick(d) /\ UNCHANGED <<obs, tasks>>

NextStamp ==
    \/ RegisterS \/ LoginS \/ ListPosts \/ CreatePostP \/ UpdatePostS
    \/ DeletePostP \/ TickS

SpecStamp == Init /\ [][NextStamp]_vars

(* Creating and deleting posts, two users, with titles and contents that *)
(* may be empty.                                                         *)
AnyPosts == {[title |-> "", content |-> ""],
             [title |-> "", content |-> "C"],
             [title |-> "T", content |-> "C"]}

CreatePostC ==
    \E t \in held, post \in AnyPosts :
        /\ post_counter <= PostCap
        /\ create_post(t, post.title, post.content)
        /\ ObserveCreate(t)
        /\ UNCHANGED tasks

NextCreate == Register \/ LoginP \/ CreatePostC \/ DeletePostP

SpecCreate == Init /\ [][NextCreate]_vars

(* The API used by alice and bob in any order, next to an onlooker who   *)
(* keeps the token each login returned and ticks off the end-to-end     *)
(* script of test_api.py for as long as the requests made are exactly    *)
(* the script's: step is the number of script requests made so far, or   *)
(* -1 once a request was not the script's next.                          *)
Script ==
    << <<"register", "alice", "author", 0>>,
       <<"register", "bob", "reader", 0>>,
       <<"login", "alice", "", 0>>,
       <<"login", "bob", "", 0>>,
       <<"create", "alice", "", 0>>,
       <<"list", "bob", "", 0>>,
       <<"create", "bob", "", 0>>,
       <<"update", "alice", "T2", 1>>,
       <<"list", "bob", "", 0>>,
       <<"delete", "bob", "", 1>>,
       <<"delete", "alice", "", 1>>,
       <<"list", "bob", "", 0>>,
       <<"delete", "alice", "", 1>> >>

ScriptStep == IF "step" \in DOMAIN obs THEN obs.step ELSE 0

Issued == IF "tokens" \in DOMAIN obs THEN obs.tokens ELSE <<>>

Follow(request, tokens) ==
    obs' = [step |-> IF /\ ScriptStep >= 0
                        /\ ScriptStep < Len(Script)
                        /\ Script[ScriptStep + 1] = request
                     THEN ScriptStep + 1 ELSE -1,
            tokens |-> tokens]

RegisterE ==
    \E u \in Usernames, r \in ValidRoles :
        /\ register_user(u, PasswordOf(u), r, "salt1")
        /\ Follow(<<"register", u, r, 0>>, Issued)
        /\ UNCHANGED tasks

LoginE ==
    \E u \in Usernames :
        /\ u \in DOMAIN login_attempts => login_attempts[u].attempts < PostLogins
        /\ login_user(u, PasswordOf(u))
        /\ Follow(<<"login", u, "", 0>>,
                  IF response'.status = 200
                  THEN Put(Issued, u, response'.token) ELSE Issued)
        /\ UNCHANGED tasks

ListPostsE ==
    \E u \in DOMAIN Issued :
        /\ get_all_posts(Issued[u])
        /\ Follow(<<"list", u, "", 0>>, Issued)
        /\ UNCHANGED tasks

CreatePostE ==
    \E u \in DOMAIN Issued :
        /\ users_db[u].role = "author" => post_counter <= TokenMaxPosts
        /\ create_post(Issued[u], "T", "C")
        /\ Follow(<<"create", u, "", 0>>, Issued)
        /\ UNCHANGED tasks

UpdatePostE ==
    \E u \in DOMAIN Issued, id \in 1..TokenMaxPosts :
        /\ update_post(Issued[u], id, "T2", NoValue)
        /\ Follow(<<"update", u, "T2", id>>, Issued)
        /\ UNCHANGED tasks

DeletePostE ==
    \E u \in DOMAIN Issued, id \in 1..TokenMaxPosts :
        /\ delete_post(Issued[u], id)
        /\ Follow(<<"delete", u, "", id>>, Issued)
        /\ UNCHANGED tasks

NextScenario ==
    \/ RegisterE \/ LoginE \/ ListPostsE \/ CreatePostE \/ UpdatePostE
    \/ DeletePostE

SpecScenario == Init /\ [][NextScenario]_vars

(* Requests in flight.  uvicorn serves the app on one event loop: a      *)
(* request is received and parsed (the framework awaits the body), and   *)
(* its handler coroutine then runs until it awaits or returns.  tasks    *)
(* holds every request received, in the order of arrival, with the place *)
(* its handler has reached (pc) and, once answered, the response status. *)

\* Mutant: hash_password is awaited (run off the event loop).
Suspends_at_hash_password(point) == point = "hash_password"

\* Mutant: create_post gives up the event loop after it has stored the post.
Suspends_after_store(point) == point = "posts_db[post_counter] = post"

\* Mutant: login_user gives up the event loop after the limiter admitted it.
Suspends_after_check(point) == point = "check_rate_limit"

\* Whether the handler gives up the event loop at a point of its body: the
\* bodies contain no await, and the functions they call are plain functions.
Suspends(point) == FALSE

\* The tail of register_user, from the hashing of the password on.
register_user_store(username, password, role, salt) ==
    /\ users_db' = Put(users_db, username,
                       [password_hash |-> hash_password(password, salt),
                        role |-> role, user_id |-> user_counter])
    /\ user_counter' = user_counter + 1
    /\ response' = [op |-> "register", username |-> username,
                    password |-> password, role |-> role, status |-> 200,
                    detail |-> "registered successfully"]
    /\ UNCHANGED <<posts_db, login_attempts, post_counter, now, held>>

Answered(i, status, result) ==
    tasks' = [tasks EXCEPT ![i].pc = "done", ![i].status = status,
                           ![i].result = result]

ReceiveRegister ==
    \E u \in Usernames, r \in Roles :
        /\ Len(tasks) < MaxRequests
        /\ tasks' = Append(tasks, [op |-> "register", username |-> u, role |-> r,
                                   pc |-> "received", status |-> 0, result |-> 0])
        /\ UNCHANGED <<users_db, posts_db, login_attempts, user_counter,
                       post_counter, now, held, response, obs>>

\* The event loop runs, or resumes, the handler of a register request.
RunRegister ==
    \E i \in 1..Len(tasks) :
        LET t == tasks[i] IN
        /\ t.op = "register"
        /\ t.pc # "done"
        /\ IF t.pc = "hashing"
           THEN /\ register_user_store(t.username, PasswordOf(t.username),
                                       t.role, "salt1")
                /\ Answered(i, 200, user_counter)
           ELSE IF /\ Suspends("hash_password")
                   /\ t.role \in ValidRoles
                   /\ t.username \notin DOMAIN users_db
           THEN /\ tasks' = [tasks EXCEPT ![i].pc = "hashing"]
                /\ UNCHANGED <<users_db, posts_db, login_attempts, user_counter,
                               post_counter, now, held, response>>
           ELSE /\ register_user(t.username, PasswordOf(t.username), t.role, "salt1")
                /\ Answered(i, response'.status,
                            IF response'.status = 200 THEN user_counter ELSE 0)
        /\ UNCHANGED obs

NextRaceRegister == ReceiveRegister \/ RunRegister

SpecRaceRegister == Init /\ [][NextRaceRegister]_vars

(* Create and delete requests in flight, one user.  The dependency of a  *)
(* post handler (require_author_role) is resolved when the request is    *)
(* received; the handler body runs later, with the principal resolved.   *)

NoUser == [user_id |-> 0, username |-> NoValue, role |-> NoValue]

\* The body of create_post up to the store of the new post.
create_post_store(current_user, title, content) ==
    posts_db' = DictSet(posts_db,
                        [post_id |-> post_counter, title |-> title,
                         content |-> content,
                         author_id |-> current_user.user_id,
                         created_at |-> now])

\* The body of create_post after the store: the id is read from the counter,
\* the counter advanced, the id returned.
create_post_return(title) ==
    /\ post_counter' = post_counter + 1
    /\ response' = [op |-> "create", status |-> 200,
                    detail |-> "Post created successfully",
                    post_id |-> post_counter, title |-> title]

\* The body of delete_post, run as the principal resolved before.
delete_post_body(current_user, post_id) ==
    LET request == [op |-> "delete", post_id |-> post_id] IN
    /\ IF post_id \notin PostIds(posts_db)
       THEN /\ response' = request @@ [status |-> 404, detail |-> "Post not found"]
            /\ UNCHANGED posts_db
       ELSE IF PostAt(posts_db, post_id).author_id # current_user.user_id
       THEN /\ response' = request @@ [status |-> 403,
                                       detail |-> "You can only delete your own posts"]
            /\ UNCHANGED posts_db
       ELSE /\ posts_db' = DictPop(posts_db, post_id)
            /\ response' = request @@ [status |-> 200,
                                       detail |-> "Post deleted successfully",
                                       title |-> PostAt(posts_db, post_id).title]
    /\ UNCHANGED <<users_db, login_attempts, user_counter, post_counter, now, held>>

\* A post request is received: its dependency is resolved, and the request
\* is answered at once when the dependency raises.
ReceivePost(op, t, post_id) ==
    LET current_user == require_author_role(t, users_db, now) IN
    /\ Len(tasks) < MaxRequests
    /\ IF current_user.ok
       THEN /\ tasks' = Append(tasks, [op |-> op, post_id |-> post_id,
                                       current_user |-> current_user.user,
                                       pc |-> "authorized", status |-> 0,
                                       result |-> 0])
            /\ UNCHANGED <<users_db, posts_db, login_attempts, user_counter,
                           post_counter, now, held, response>>
       ELSE /\ tasks' = Append(tasks, [op |-> op, post_id |-> post_id,
                                       current_user |-> NoUser,
                                       pc |-> "done",
                                       status |-> current_user.status,
                                       result |-> 0])
            /\ IF op = "create" THEN create_post(t, "T", "C")
                                ELSE delete_post(t, post_id)
    /\ UNCHANGED obs

ReceiveCreate == \E t \in held : ReceivePost("create", t, 0)

ReceiveDelete == \E t \in held, id \in 1..MaxRequests : ReceivePost("delete", t, id)

\* The event loop runs, or resumes, the body of a create request.
RunCreate ==
    \E i \in 1..Len(tasks) :
        LET t == tasks[i] IN
        /\ t.op = "create"
        /\ t.pc # "done"
        /\ IF t.pc = "stored"
           THEN /\ create_post_return("T")
                /\ Answered(i, 200, post_counter)
                /\ UNCHANGED posts_db
           ELSE IF Suspends("posts_db[post_counter] = post")
           THEN /\ create_post_store(t.current_user, "T", "C")
                /\ tasks' = [tasks EXCEPT ![i].pc = "stored"]
                /\ UNCHANGED <<post_counter, response>>
           ELSE /\ create_post_store(t.current_user, "T", "C")
                /\ create_post_return("T")
                /\ Answered(i, 200, post_counter)
        /\ UNCHANGED <<users_db, login_attempts, user_counter, now, held, obs>>

\* The event loop runs the body of a delete request.
RunDelete ==
    \E i \in 1..Len(tasks) :
        LET t == tasks[i] IN
        /\ t.op = "delete"
        /\ t.pc # "done"
        /\ delete_post_body(t.current_user, t.post_id)
        /\ Answered(i, response'.status, t.post_id)
        /\ UNCHANGED obs

NextRacePosts ==
    \/ RegisterS \/ LoginS \/ ReceiveCreate \/ ReceiveDelete \/ RunCreate
    \/ RunDelete

SpecRacePosts == Init /\ [][NextRacePosts]_vars

(* Login requests in flight for one username, within one limiter window. *)

\* login_user from increment_login_attempts on, for an attempt the limiter
\* has admitted.
login_user_admitted(username, password) ==
    LET la2 == increment_login_attempts(login_attempts, username, now)
        ok == /\ username \in DOMAIN users_db
              /\ verify_password(password, users_db[username].password_hash)
        token == IF ok THEN create_access_token([sub |-> username], now)
                 ELSE NoToken
    IN
    /\ login_attempts' = la2
    /\ response' = [op |-> "login", username |-> username, password |-> password,
                    status |-> IF ok THEN 200 ELSE 401,
                    detail |-> IF ok THEN "bearer"
                               ELSE "Invalid username or password",
                    token |-> token]
    /\ IF ok THEN ClientKeeps(token) ELSE UNCHANGED held
    /\ UNCHANGED <<users_db, posts_db, user_counter, post_counter, now>>

ReceiveLogin ==
    \E u \in LimiterUsers, p \in LimiterPasswords :
        /\ Len(tasks) < MaxLoginRequests
        /\ tasks' = Append(tasks, [op |-> "login", username |-> u, password |-> p,
                                   pc |-> "received", status |-> 0, result |-> 0])
        /\ UNCHANGED <<users_db, posts_db, login_attempts, user_counter,
                       post_counter, now, held, response, obs>>

\* The event loop runs, or resumes, the handler of a login request.
RunLogin ==
    \E i \in 1..Len(tasks) :
        LET t == tasks[i]
            chk == check_rate_limit(login_attempts, t.username, now)
        IN
        /\ t.op = "login"
        /\ t.pc # "done"
        /\ IF t.pc = "checked"
           THEN /\ login_user_admitted(t.username, t.password)
                /\ Answered(i, response'.status, 0)
           ELSE IF Suspends("check_rate_limit") /\ chk.ok
           THEN /\ login_attempts' = chk.la
                /\ tasks' = [tasks EXCEPT ![i].pc = "checked"]
                /\ UNCHANGED <<users_db, posts_db, user_counter, post_counter,
                               now, held, response>>
           ELSE /\ login_user(t.username, t.password)
                /\ Answered(i, response'.status, 0)
        /\ UNCHANGED obs

NextRaceLogin == RegisterL \/ ReceiveLogin \/ RunLogin

SpecRaceLogin == Init /\ [][NextRaceLogin]_vars

(* Every operation of the API, two users. *)
NextFrame == NextPosts \/ WhoAmI

SpecFrame == Init /\ [][NextFrame]_vars

(* Login for one username across lockouts, next to an onlooker who keeps *)
(* the times of the last attempt admitted and of the last one refused.   *)
NoLockout == [admitted |-> -1, rejected |-> -1]

LockoutOf(u) == IF u \in DOMAIN obs THEN obs[u] ELSE NoLockout

ObserveLockout(username, password) ==
    LET r == login_result(users_db, login_attempts, username, password, now)
        o == LockoutOf(username)
    IN obs' = Put(obs, username,
                  IF r.status = 429 THEN [o EXCEPT !.rejected = now]
                  ELSE [o EXCEPT !.admitted = now])

LoginK ==
    \E u \in LimiterUsers, p \in LimiterPasswords :
        login_user(u, p) /\ ObserveLockout(u, p) /\ UNCHANGED tasks

NextLockout == RegisterL \/ LoginK \/ TickL

SpecLockout == Init /\ [][NextLockout]_vars

(* ================================ claims =============================== *)
InWindow(u) ==
    /\ u \in DOMAIN login_attempts
    /\ now - login_attempts[u].last_attempt_time <= RATE_WINDOW_SECONDS

\* The statuses of a run of attempts on a fresh limiter state, all answered
\* `admitted` until the cap and 429 after it.
CappedRun(log, admitted) ==
    \A i \in 1..Len(log) :
        log[i] = IF i <= RATE_MAX_ATTEMPTS THEN admitted ELSE 429

\* C1: for a username without limiter state, of six wrong-password login
\* attempts made within one 60-second window the first five are admitted and
\* answered 401 (invalid credentials) and the sixth is answered 429 (rate
\* limited).
C1_FiveFailuresThenLimited ==
    \A u \in DOMAIN obs : obs[u].kind = "wrong" => CappedRun(obs[u].log, 401)

C1_Witness ==
    \E u \in DOMAIN obs :
        /\ obs[u].kind = "wrong"
        /\ Len(obs[u].log) >= RATE_MAX_ATTEMPTS + 1
        /\ response.op = "login" /\ response.username = u /\ response.status = 429

\* C2: the window is anchored at its first attempt: the stored timestamp is
\* not changed by later attempts made in the same window, and once more than
\* 60 seconds have elapsed since the first attempt of the current window the
\* next attempt is admitted and leaves the counter at 1.
C2_WindowAnchoredAtFirstAttempt ==
    [][\A u \in Usernames, p \in Passwords :
          (login_user(u, p) /\ u \in DOMAIN login_attempts) =>
              IF now - ObsOf(u).first > RATE_WINDOW_SECONDS
              THEN /\ response'.status # 429
                   /\ login_attempts'[u].attempts = 1
              ELSE login_attempts'[u].last_attempt_time =
                       login_attempts[u].last_attempt_time]_vars

\* C3: a login attempt is answered 429 only if at least 5 attempts for the
\* same username were admitted during the 60 seconds before it.
C3_LimitedOnlyAfterFiveInLastMinute ==
    (response.op = "login" /\ response.status = 429) =>
        Len(ObsOf(response.username).recent) >= RATE_MAX_ATTEMPTS

\* C4: every attempt the limiter admits adds exactly one to the counter the
\* admission check leaves (the stored value inside the window, 0 when the
\* state is created or reset), whether the attempt then succeeds or fails; so
\* the sixth of six correct-password logins in one window is answered 429.
C4_EveryAdmittedAttemptCounts ==
    [][/\ \A u \in Usernames, p \in Passwords :
             login_user(u, p) =>
                 IF InWindow(u)
                 THEN IF login_attempts[u].attempts < RATE_MAX_ATTEMPTS
                      THEN /\ response'.status \in {200, 401}
                           /\ login_attempts'[u].attempts =
                                  login_attempts[u].attempts + 1
                      ELSE response'.status = 429
                 ELSE /\ response'.status \in {200, 401}
                      /\ login_attempts'[u].attempts = 1
       /\ \A u \in DOMAIN obs' :
             obs'[u].kind = "right" => CappedRun(obs'[u].log, 200)]_vars

C4_Witness ==
    \E u \in DOMAIN obs :
        /\ obs[u].kind = "right"
        /\ Len(obs[u].log) >= RATE_MAX_ATTEMPTS + 1
        /\ response.op = "login" /\ response.username = u /\ response.status = 429
        /\ ~WrongPassword(u, response.password)

\* C6: a wrong-password login is answered the same, and leaves the same
\* limiter state, whether or not the username is registered.
C6_NoUsernameEnumeration ==
    \A u \in DOMAIN users_db, p \in Passwords :
        WrongPassword(u, p) =>
            LET known == login_result(users_db, login_attempts, u, p, now)
                unknown == login_result(Without(users_db, u), login_attempts, u, p, now)
            IN /\ known.status = unknown.status
               /\ known.detail = unknown.detail
               /\ known.la = unknown.la
               /\ known.token = unknown.token

C6_Witness ==
    /\ response.op = "login"
    /\ response.username \in DOMAIN users_db
    /\ WrongPassword(response.username, response.password)
    /\ response.status = 401
    /\ login_attempts[response.username].attempts > 1

\* The password a registered username was registered with.
RegisteredPassword(u) == users_db[u].password_hash.digest[2]

\* C5: login returns a bearer token exactly when the limiter admits the
\* attempt, the username is registered and the password is the registered
\* one; a rejected attempt is answered 429 without a token even with correct
\* credentials.
C5_TokenIffAdmittedAndVerified ==
    [][\A u \in Usernames, p \in Passwords :
          login_user(u, p) =>
              LET admitted ==
                      ~(InWindow(u) /\ login_attempts[u].attempts >= RATE_MAX_ATTEMPTS)
                  verified == u \in DOMAIN users_db /\ RegisteredPassword(u) = p
              IN /\ response'.status = 200 <=> (admitted /\ verified)
                 /\ response'.status = 429 <=> ~admitted
                 /\ response'.status = 200 =>
                        /\ response'.detail = "bearer"
                        /\ response'.token =
                               jwt_encode([sub |-> u,
                                           exp |-> now + ACCESS_TOKEN_EXPIRE_MINUTES * 60],
                                          SECRET_KEY)
                 /\ response'.status # 200 =>
                        /\ response'.token = NoToken
                        /\ held' = held]_vars

C5_Witness ==
    /\ response.op = "login"
    /\ response.status = 429
    /\ response.username \in DOMAIN users_db
    /\ RegisteredPassword(response.username) = response.password

\* C7 as stated: a register call for a registered username fails with
\* DuplicateIdentity whatever role (valid or not) and password it carries, and
\* leaves the identities and the userId counter unchanged.
C7_DuplicateWhateverTheRole ==
    [][\A u \in Usernames, p \in Passwords, r \in Roles, salt \in Salts :
          (register_user(u, p, r, salt) /\ u \in DOMAIN users_db) =>
              /\ response'.status = 400
              /\ response'.detail = "Username already registered"
              /\ users_db' = users_db
              /\ user_counter' = user_counter]_vars

\* C7 amended: a register call for a registered username always fails and
\* leaves the identities and the userId counter unchanged, whatever the
\* password; it fails with DuplicateIdentity when the role is reader or
\* author, and with InvalidRole when it is not (the role is checked first).
C7_DuplicateAfterRoleCheck ==
    [][\A u \in Usernames, p \in Passwords, r \in Roles, salt \in Salts :
          (register_user(u, p, r, salt) /\ u \in DOMAIN users_db) =>
              /\ response'.status = 400
              /\ response'.detail =
                     IF r \in ValidRoles
                     THEN "Username already registered"
                     ELSE "Role must be either 'reader' or 'author'"
              /\ users_db' = users_db
              /\ user_counter' = user_counter]_vars

C7_Witness ==
    /\ response.op = "register"
    /\ response.status = 400
    /\ response.detail = "Username already registered"
    /\ response.username \in DOMAIN users_db
    /\ RegisteredPassword(response.username) # response.password
    /\ users_db[response.username].role # response.role

\* C8: register with a role outside {reader, author} fails with InvalidRole,
\* creates no identity and takes no userId; a register of the same, still
\* unregistered, username with a valid role then succeeds.
C8_InvalidRoleLeavesNoTrace ==
    [][\A u \in Usernames, p \in Passwords, r \in Roles, salt \in Salts :
          register_user(u, p, r, salt) =>
              /\ r \notin ValidRoles =>
                     /\ response'.status = 400
                     /\ response'.detail = "Role must be either 'reader' or 'author'"
                     /\ users_db' = users_db
                     /\ user_counter' = user_counter
              /\ ( /\ r \in ValidRoles
                   /\ response.op = "register"
                   /\ response.username = u
                   /\ response.role \notin ValidRoles
                   /\ u \notin DOMAIN users_db ) =>
                     /\ response'.status = 200
                     /\ DOMAIN users_db' = DOMAIN users_db \cup {u}
                     /\ users_db'[u].role = r
                     /\ users_db'[u].user_id = user_counter
                     /\ user_counter' = user_counter + 1]_vars

C8_Witness ==
    /\ response.op = "register"
    /\ response.status = 400
    /\ response.role \notin ValidRoles
    /\ response.username \notin DOMAIN users_db
    /\ user_counter > 1

\* The principal a token of subject sub resolves to.
PrincipalOf(users, sub) ==
    [user_id |-> users[sub].user_id, username |-> sub, role |-> users[sub].role]

\* C9: a token issued by login for U expires 15 minutes after issuance; until
\* then it resolves, in every state and whatever happened since, to U with
\* the role and userId of U's registration (which never change), and once
\* now > exp it resolves to 401.
C9_TokenResolvesUntilExpiry ==
    [][/\ \A u \in Usernames, p \in Passwords :
             (login_user(u, p) /\ response'.status = 200) =>
                 /\ response'.token.payload.sub = u
                 /\ response'.token.payload.exp = now + ACCESS_TOKEN_EXPIRE_MINUTES * 60
                 /\ held' \subseteq held \cup {response'.token}
       /\ \A u \in DOMAIN users_db :
             u \in DOMAIN users_db' /\ users_db'[u] = users_db[u]
       /\ \A t \in held' :
             LET r == get_current_user(t, users_db', now') IN
             IF now' <= t.payload.exp
             THEN /\ r.ok
                  /\ r.user = PrincipalOf(users_db', t.payload.sub)
             ELSE ~r.ok /\ r.status = 401
       /\ \A t \in held :
             get_current_user_info(t) =>
                 IF now <= t.payload.exp
                 THEN /\ response'.status = 200
                      /\ response'.body = PrincipalOf(users_db, t.payload.sub)
                 ELSE response'.status = 401]_vars

C9_Witness ==
    /\ response.op = "whoami"
    /\ response.status = 200
    /\ response.body.username = "alice"
    /\ \E t \in held : t.payload.exp = now
    /\ now > 0
    /\ login_attempts["alice"].attempts = RATE_MAX_ATTEMPTS
    /\ Len(posts_db) > 0

\* A bearer string that is malformed, badly signed, expired, without subject,
\* or of a subject that is not registered.
InvalidToken(t) ==
    \/ ~t.wellformed
    \/ t.sig # <<SECRET_KEY, t.payload>>
    \/ t.payload.exp < now
    \/ "sub" \notin DOMAIN t.payload
    \/ t.payload.sub \notin DOMAIN users_db

\* The step is a protected operation called with bearer string t.
ProtectedCall(t) ==
    \/ response'.op = "list" /\ get_all_posts(t)
    \/ response'.op = "whoami" /\ get_current_user_info(t)
    \/ /\ response'.op = "create"
       /\ \E title \in Titles, content \in Contents : create_post(t, title, content)
    \/ /\ response'.op = "update"
       /\ \E id \in 1..MaxPosts, title \in NewTitles, content \in NewContents :
              update_post(t, id, title, content)
    \/ /\ response'.op = "delete"
       /\ \E id \in 1..MaxPosts : delete_post(t, id)

\* C10: every protected operation called with an invalid token is answered
\* 401 (never 403 or 404) and changes no identity, post, counter or limiter
\* state.
C10_InvalidTokenIsUnauthenticated ==
    [][\A t \in Tokens :
          (InvalidToken(t) /\ ProtectedCall(t)) =>
              /\ response'.status = 401
              /\ UNCHANGED <<users_db, posts_db, login_attempts,
                             user_counter, post_counter>>]_vars

C10_Witness ==
    /\ response.op = "delete"
    /\ response.status = 401
    /\ response.post_id \in PostIds(posts_db)
    /\ \E u \in DOMAIN users_db : users_db[u].role = "reader"

(* ------------------------- claims about the posts ---------------------- *)
\* The principal a bearer token resolves to in the current state.
Authenticated(t) == get_current_user(t, users_db, now).ok

CallerRole(t) ==
    LET current_user == get_current_user(t, users_db, now) IN
    IF current_user.ok THEN current_user.user.role ELSE NoValue

CallerId(t) ==
    LET current_user == get_current_user(t, users_db, now) IN
    IF current_user.ok THEN current_user.user.user_id ELSE 0

\* C11: create post called by a principal whose role is reader always fails
\* with 403 Forbidden, and posts_db and post_counter are left as they were.
C11_ReaderCannotCreate ==
    [][\A t \in held, title \in Titles, content \in Contents :
          (/\ CallerRole(t) = "reader"
           /\ response'.op = "create"
           /\ create_post(t, title, content))
          => /\ response'.status = 403
             /\ response'.detail = "Only authors can perform this action"
             /\ posts_db' = posts_db
             /\ post_counter' = post_counter]_vars

\* C11 witness: a reader was refused while the repository holds a post.
C11_Witness ==
    /\ response.op = "create"
    /\ response.status = 403
    /\ posts_db # <<>>
    /\ \E t \in held : CallerRole(t) = "reader"

\* C12: update or delete of an existing post by an authenticated caller whose
\* user_id differs from the post's author_id fails with 403 and leaves the
\* post as it was; every successful update or delete is made by the identity
\* with role author that created the post.
C12_OnlyTheOwnerMutates ==
    [][\A t \in held, id \in PostIds(posts_db) :
          /\ (/\ Authenticated(t)
              /\ CallerId(t) # PostAt(posts_db, id).author_id
              /\ \/ /\ response'.op = "update"
                    /\ response'.post_id = id
                    /\ \E title \in NewTitles : update_post(t, id, title, NoValue)
                 \/ /\ response'.op = "delete"
                    /\ response'.post_id = id
                    /\ delete_post(t, id))
             => /\ response'.status = 403
                /\ id \in PostIds(posts_db')
                /\ PostAt(posts_db', id) = PostAt(posts_db, id)
          /\ (/\ response'.status = 200
              /\ \/ /\ response'.op = "update"
                    /\ response'.post_id = id
                    /\ \E title \in NewTitles : update_post(t, id, title, NoValue)
                 \/ /\ response'.op = "delete"
                    /\ response'.post_id = id
                    /\ delete_post(t, id))
             => /\ CallerRole(t) = "author"
                /\ CallerOf(t) = obs[id].creator]_vars

\* C12 witness: an author was refused the update of another author's post.
C12_Witness ==
    /\ response.op = "update"
    /\ response.status = 403
    /\ response.detail = "You can only update your own posts"
    /\ response.post_id \in PostIds(posts_db)
    /\ \E t \in held :
           /\ CallerRole(t) = "author"
           /\ CallerId(t) # PostAt(posts_db, response.post_id).author_id

\* The program's own state: everything but the client's tokens, the response
\* and the onlooker's notes.
store == <<users_db, posts_db, login_attempts, user_counter, post_counter>>

\* C13: update or delete called by an author on a post_id that is not in
\* posts_db, never created or already deleted, fails with 404 and changes no
\* state.
C13_MissingPostIsNotFound ==
    [][\A t \in held, id \in 1..PostCap :
          (/\ CallerRole(t) = "author"
           /\ id \notin PostIds(posts_db)
           /\ \/ /\ response'.op = "update"
                 /\ response'.post_id = id
                 /\ \E title \in NewTitles : update_post(t, id, title, NoValue)
              \/ /\ response'.op = "delete"
                 /\ response'.post_id = id
                 /\ delete_post(t, id))
          => /\ response'.status = 404
             /\ response'.detail = "Post not found"
             /\ store' = store]_vars

\* C13 witness: an author was told that a post deleted earlier is not found,
\* while a post never created is missing as well.
C13_Witness ==
    /\ response.op = "delete"
    /\ response.status = 404
    /\ response.post_id \in DOMAIN obs
    /\ ~obs[response.post_id].alive
    /\ \E id \in 1..PostCap : id \notin DOMAIN obs
    /\ \E t \in held : CallerRole(t) = "author"

\* C14: update and delete report the first failing check in the order token,
\* role, existence, ownership: a reader gets the role's 403 for an existing
\* and for a missing post_id and never 404; an author gets 404 for a missing
\* post_id, the ownership 403 exactly for an existing post of another author,
\* and 200 for an own post.
C14_ChecksInFixedOrder ==
    [][\A t \in held, id \in 1..PostCap :
          LET existing == id \in PostIds(posts_db)
              own == existing /\ PostAt(posts_db, id).author_id = CallerId(t)
              expected(verb) ==
                  IF ~Authenticated(t) THEN <<401, "Invalid authentication credentials">>
                  ELSE IF CallerRole(t) # "author"
                  THEN <<403, "Only authors can perform this action">>
                  ELSE IF ~existing THEN <<404, "Post not found">>
                  ELSE IF ~own
                  THEN <<403, IF verb = "update"
                              THEN "You can only update your own posts"
                              ELSE "You can only delete your own posts">>
                  ELSE <<200, IF verb = "update"
                              THEN "Post updated successfully"
                              ELSE "Post deleted successfully">>
          IN /\ (/\ response'.op = "update"
                 /\ response'.post_id = id
                 /\ \E title \in NewTitles : update_post(t, id, title, NoValue))
                => <<response'.status, response'.detail>> = expected("update")
             /\ (/\ response'.op = "delete"
                 /\ response'.post_id = id
                 /\ delete_post(t, id))
                => <<response'.status, response'.detail>> = expected("delete")]_vars

\* C14 witness: a reader asked to delete a post_id that does not exist and
\* was answered with the role's 403.
C14_Witness ==
    /\ response.op = "delete"
    /\ response.status = 403
    /\ response.detail = "Only authors can perform this action"
    /\ response.post_id \notin PostIds(posts_db)
    /\ posts_db # <<>>
    /\ \E t \in held : CallerRole(t) = "reader"

\* C15: list, for a reader as for an author and in every reachable state,
\* returns exactly the posts in posts_db, each once, in ascending post_id
\* order, whatever creates, updates and deletes came before; it changes no
\* state.
C15_ListIsTheRepositoryInIdOrder ==
    [][\A t \in held :
          (/\ Authenticated(t)
           /\ response'.op = "list"
           /\ get_all_posts(t))
          => /\ response'.status = 200
             /\ LET body == response'.body IN
                /\ Len(body) = Len(posts_db)
                /\ {body[i].post_id : i \in 1..Len(body)} = PostIds(posts_db)
                /\ \A i, j \in 1..Len(body) :
                       i < j => body[i].post_id < body[j].post_id
                /\ \A i \in 1..Len(body) :
                       LET post == PostAt(posts_db, body[i].post_id) IN
                       /\ body[i].title = post.title
                       /\ body[i].content = post.content
                       /\ body[i].created_at = post.created_at
             /\ store' = store]_vars

\* C15 witness: a reader listed two posts, the older of them updated since
\* the younger was created.
C15_Witness ==
    /\ response.op = "list"
    /\ response.status = 200
    /\ Len(response.body) = 2
    /\ response.body[1].title = "T2"
    /\ \E t \in held : CallerRole(t) = "reader"

\* C16: a successful update overwrites only the fields present in the
\* request: an absent field keeps its value, post_id, author_id and
\* created_at are never changed, and no other post is modified.
C16_UpdateWritesOnlyPresentFields ==
    [][\A t \in held, id \in 1..PostCap, title \in NewTitles, content \in NewContents :
          (/\ response'.op = "update"
           /\ response'.status = 200
           /\ response'.post_id = id
           /\ update_post(t, id, title, content))
          => /\ Len(posts_db') = Len(posts_db)
             /\ \A i \in 1..Len(posts_db) :
                    LET old == posts_db[i]
                        new == posts_db'[i]
                    IN IF old.post_id # id THEN new = old
                       ELSE /\ new.title = IF title # NoValue THEN title ELSE old.title
                            /\ new.content =
                                   IF content # NoValue THEN content ELSE old.content
                            /\ new.post_id = old.post_id
                            /\ new.author_id = old.author_id
                            /\ new.created_at = old.created_at
                            /\ DOMAIN new = DOMAIN old]_vars

\* C16 witness: of two posts the one created first has, at a later time, had
\* its content updated by a request that carried no title.
C16_Witness ==
    /\ response.op = "update"
    /\ response.status = 200
    /\ Len(posts_db) = 2
    /\ \E i \in 1..2 :
           /\ posts_db[i].post_id = response.post_id
           /\ posts_db[i].title = "T"
           /\ posts_db[i].content = "C2"
           /\ posts_db[i].created_at < now
    /\ \E i \in 1..2 :
           /\ posts_db[i].post_id # response.post_id
           /\ posts_db[i].content = "C"

C17_WitnessLater ==
    /\ response.op = "update"
    /\ response.status = 404
    /\ response.post_id \in DOMAIN obs
    /\ posts_db # <<>>

\* C18: user_ids and post_ids are handed out in strictly increasing order
\* and never reused: a successful register gets a user_id above every
\* user_id assigned before, a successful create a post_id above every post_id
\* ever assigned, those of deleted posts included.
C18_IdsOnlyGrow ==
    [][/\ \A u \in Usernames, r \in Roles :
             (/\ response'.op = "register"
              /\ response'.status = 200
              /\ register_user(u, PasswordOf(u), r, "salt1"))
             => /\ u \notin DOMAIN users_db
                /\ \A v \in DOMAIN users_db :
                       users_db'[u].user_id > users_db[v].user_id
                /\ user_counter' > users_db'[u].user_id
       /\ \A t \in held, title \in Titles, content \in Contents :
             (/\ response'.op = "create"
              /\ response'.status = 200
              /\ create_post(t, title, content))
             => /\ \A id \in DOMAIN obs : response'.post_id > id
                /\ PostIds(posts_db') = PostIds(posts_db) \cup {response'.post_id}
                /\ post_counter' > response'.post_id]_vars

\* C18 witness: the post created after post 1 was deleted got post_id 2, and
\* the two registered users have the user_ids 1 and 2.
C18_Witness ==
    /\ response.op = "create"
    /\ response.status = 200
    /\ response.post_id = 2
    /\ ~obs[1].alive
    /\ PostIds(posts_db) = {2}
    /\ {users_db[u].user_id : u \in DOMAIN users_db} = {1, 2}

\* C19: in every reachable state the author_id of each stored post is the
\* user_id of exactly one registered identity, whose role is author, so that
\* list resolves an author username for every post.
C19_EveryPostHasOneAuthor ==
    /\ \A i \in 1..Len(posts_db) :
           LET owners == {u \in DOMAIN users_db :
                             users_db[u].user_id = posts_db[i].author_id}
           IN /\ Cardinality(owners) = 1
              /\ \A u \in owners : users_db[u].role = "author"
    /\ (response.op = "list" /\ response.status = 200)
       => \A i \in 1..Len(response.body) :
              /\ response.body[i].author # NoValue
              /\ response.body[i].author = obs[response.body[i].post_id].creator

\* C19 witness: a list of the posts of two authors, each under the name of
\* the one who created it.
C19_Witness ==
    /\ response.op = "list"
    /\ response.status = 200
    /\ Len(response.body) = 2
    /\ response.body[1].author # response.body[2].author

\* C20: once an identity is registered its username, password hash, role and
\* user_id never change and it is never removed, whatever register, login
\* and post operations follow; no two identities share a user_id.
C20_IdentitiesAreForGood ==
    [][/\ \A u \in DOMAIN users_db :
             /\ u \in DOMAIN users_db'
             /\ users_db'[u] = users_db[u]
       /\ \A u, v \in DOMAIN users_db' :
             u # v => users_db'[u].user_id # users_db'[v].user_id]_vars

\* C20 witness: with two identities registered, logins made and a post
\* stored, a registration under a taken username and another role was
\* refused and the identity has the role it had.
C20_Witness ==
    /\ response.op = "register"
    /\ response.status = 400
    /\ response.detail = "Username already registered"
    /\ response.role # users_db[response.username].role
    /\ Cardinality(DOMAIN users_db) = 2
    /\ DOMAIN login_attempts # {}
    /\ posts_db # <<>>

\* C21: create called by an author succeeds for any title and content, the
\* empty strings included: it stores a new post under a post_id never used
\* before, with the caller's user_id as author_id and the title and content
\* given, returns that post_id, and leaves the posts stored before as they
\* were.
C21_AuthorCreatesAnyPost ==
    [][\A t \in held, post \in AnyPosts :
          (/\ CallerRole(t) = "author"
           /\ response'.op = "create"
           /\ create_post(t, post.title, post.content))
          => /\ response'.status = 200
             /\ response'.title = post.title
             /\ response'.post_id \notin DOMAIN obs
             /\ response'.post_id \notin PostIds(posts_db)
             /\ posts_db' = Append(posts_db,
                                   [post_id |-> response'.post_id,
                                    title |-> post.title,
                                    content |-> post.content,
                                    author_id |-> CallerId(t),
                                    created_at |-> now])]_vars

\* C21 witness: next to the post of another author, a post with an empty
\* title and an empty content has been created.
C21_Witness ==
    /\ response.op = "create"
    /\ response.status = 200
    /\ response.title = ""
    /\ Len(posts_db) = 2
    /\ posts_db[2].post_id = response.post_id
    /\ posts_db[2].title = ""
    /\ posts_db[2].content = ""
    /\ posts_db[1].author_id # posts_db[2].author_id

(* ----------------------- claims about whole runs ----------------------- *)
\* What the end-to-end scenario says of the response to its k-th request.
Stated(k) ==
    CASE k \in {1, 2} -> response.op = "register" /\ response.status = 200
      [] k \in {3, 4} -> /\ response.op = "login"
                         /\ response.status = 200
                         /\ response.token # NoToken
      [] k = 5 -> /\ response.op = "create"
                  /\ response.status = 200
                  /\ response.post_id = 1
      [] k = 6 -> /\ response.op = "list"
                  /\ response.status = 200
                  /\ Len(response.body) = 1
                  /\ response.body[1].post_id = 1
                  /\ response.body[1].author = "alice"
                  /\ response.body[1].title = "T"
                  /\ response.body[1].content = "C"
      [] k = 7 -> response.op = "create" /\ response.status = 403
      [] k = 8 -> response.op = "update" /\ response.status = 200
      [] k = 9 -> /\ response.op = "list"
                  /\ response.status = 200
                  /\ Len(response.body) = 1
                  /\ response.body[1].post_id = 1
                  /\ response.body[1].author = "alice"
                  /\ response.body[1].title = "T2"
                  /\ response.body[1].content = "C"
      [] k = 10 -> /\ response.op = "delete"
                   /\ response.status = 403
                   /\ PostIds(posts_db) = {1}
      [] k = 11 -> /\ response.op = "delete"
                   /\ response.status = 200
                   /\ response.title = "T2"
      [] k = 12 -> /\ response.op = "list"
                   /\ response.status = 200
                   /\ response.body = <<>>
      [] k = 13 -> response.op = "delete" /\ response.status = 404
      [] OTHER -> TRUE

\* C22: from the empty initial state the end-to-end scenario runs as stated:
\* alice (author) and bob (reader) register and log in; alice's create gets
\* post_id 1; bob lists one post, by alice; bob's create is refused with 403;
\* after alice's update of the title the list shows T2 with the content C;
\* bob's delete is refused with 403; alice's delete succeeds and the list is
\* empty; one more delete of post 1 is answered 404.
C22_ScenarioRunsAsStated ==
    \A k \in 1..Len(Script) : ScriptStep = k => Stated(k)

\* C22 witness: the scenario has been run to its last request.
C22_Witness ==
    /\ ScriptStep = Len(Script)
    /\ response.op = "delete"
    /\ response.status = 404

(* --------------------- claims about requests in flight ----------------- *)
\* C23: however concurrently received register requests are interleaved,
\* two register calls for one username never both succeed, and two
\* successful registers never get the same user_id; every identity that a
\* register call was told it created is stored, under the user_id it took.
C23_RegisterDoesNotRace ==
    /\ \A i, j \in 1..Len(tasks) :
           (/\ i # j
            /\ tasks[i].op = "register" /\ tasks[i].status = 200
            /\ tasks[j].op = "register" /\ tasks[j].status = 200)
           => /\ tasks[i].username # tasks[j].username
              /\ tasks[i].result # tasks[j].result
    /\ \A i \in 1..Len(tasks) :
           (tasks[i].op = "register" /\ tasks[i].status = 200)
           => /\ tasks[i].username \in DOMAIN users_db
              /\ users_db[tasks[i].username].user_id = tasks[i].result
              /\ users_db[tasks[i].username].role = tasks[i].role

\* C23 witness: of two requests for the username alice in flight together,
\* the one received later was run first and succeeded, the other was refused;
\* a request for bob received before either was run got user_id 2.
C23_Witness ==
    /\ Len(tasks) = 3
    /\ tasks[1].op = "register" /\ tasks[1].username = "alice"
    /\ tasks[1].role = "author" /\ tasks[1].status = 400
    /\ tasks[2].op = "register" /\ tasks[2].username = "alice"
    /\ tasks[2].role = "reader" /\ tasks[2].status = 200 /\ tasks[2].result = 1
    /\ tasks[3].op = "register" /\ tasks[3].username = "bob"
    /\ tasks[3].status = 200 /\ tasks[3].result = 2
    /\ users_db["alice"].role = "reader"

\* C24: however concurrently received create and delete requests are
\* interleaved, every successful create gets a post_id of its own, and the
\* post it stored is there, as its author's, until a delete of that post_id
\* succeeds: no create overwrites the post of another.
C24_CreateDoesNotRace ==
    /\ \A i, j \in 1..Len(tasks) :
           (/\ i # j
            /\ tasks[i].op = "create" /\ tasks[i].status = 200
            /\ tasks[j].op = "create" /\ tasks[j].status = 200)
           => tasks[i].result # tasks[j].result
    /\ \A i \in 1..Len(tasks) :
           (tasks[i].op = "create" /\ tasks[i].status = 200)
           => \/ /\ tasks[i].result \in PostIds(posts_db)
                 /\ PostAt(posts_db, tasks[i].result).author_id =
                        tasks[i].current_user.user_id
              \/ \E j \in 1..Len(tasks) :
                    /\ tasks[j].op = "delete"
                    /\ tasks[j].status = 200
                    /\ tasks[j].post_id = tasks[i].result
    /\ Len(posts_db) = Cardinality(PostIds(posts_db))

\* C24 witness: two creates and a delete were in flight together; the create
\* received first was run second, and the delete removed the other's post.
C24_Witness ==
    /\ Len(tasks) = 3
    /\ tasks[1].op = "create" /\ tasks[1].status = 200 /\ tasks[1].result = 2
    /\ tasks[2].op = "create" /\ tasks[2].status = 200 /\ tasks[2].result = 1
    /\ tasks[3].op = "delete" /\ tasks[3].status = 200 /\ tasks[3].post_id = 1
    /\ PostIds(posts_db) = {2}

\* The login requests for a username that the limiter admitted: those
\* answered with a token or with 401.
Admitted(u) ==
    {i \in 1..Len(tasks) :
        /\ tasks[i].op = "login"
        /\ tasks[i].username = u
        /\ tasks[i].status \in {200, 401}}

\* C25: however concurrently received login requests for one username are
\* interleaved, no increment of the counter is lost and the limiter's check
\* and increment are not split: the counter is the number of attempts
\* admitted, and at most 5 attempts are admitted within one window, however
\* many arrive together.
C25_LoginDoesNotRace ==
    \A u \in LimiterUsers :
        /\ Cardinality(Admitted(u)) <= RATE_MAX_ATTEMPTS
        /\ u \in DOMAIN login_attempts
           => login_attempts[u].attempts = Cardinality(Admitted(u))

\* C25 witness: six requests were in flight together; the one received first
\* was run last and refused, the five others were admitted, one of them with
\* the right password.
C25_Witness ==
    /\ Len(tasks) = 6
    /\ tasks[1].status = 429
    /\ Cardinality(Admitted("alice")) = 5
    /\ \E i \in 2..6 : tasks[i].status = 200
    /\ login_attempts["alice"].attempts = 5

(* ---------------------- claims about frame effects --------------------- *)
\* The limiter state of a username, or None when there is none.
LimiterState(la, u) == IF u \in DOMAIN la THEN la[u] ELSE [none |-> NoValue]

\* C26: operations touch only their own entity set: register changes only
\* users_db and user_counter; login only the limiter state of the username
\* given; create, update and delete only posts_db and post_counter; list and
\* whoami nothing.
C26_OperationsKeepToTheirEntities ==
    [][/\ response'.op = "register"
          => UNCHANGED <<posts_db, login_attempts, post_counter>>
       /\ response'.op = "login"
          => /\ UNCHANGED <<users_db, posts_db, user_counter, post_counter>>
             /\ \A u \in Usernames \ {response'.username} :
                    LimiterState(login_attempts', u) = LimiterState(login_attempts, u)
       /\ response'.op \in {"create", "update", "delete"}
          => UNCHANGED <<users_db, login_attempts, user_counter>>
       /\ response'.op \in {"update", "delete"} => UNCHANGED post_counter
       /\ response'.op \in {"list", "whoami"} => store' = store]_vars

\* C26 witness: bob has logged in while alice has limiter state and a post
\* of hers is stored.
C26_Witness ==
    /\ response.op = "login"
    /\ response.username = "bob"
    /\ response.status = 200
    /\ "alice" \in DOMAIN login_attempts
    /\ posts_db # <<>>

(* ------------------------ claims about the limiter --------------------- *)
\* The times at which the limiter is asked: now, and 60 and 61 seconds on.
ProbeTimes == {now, now + 60, now + 61}

\* C27: allow(username, now) decides exactly so: with no state it creates
\* state with count 0 and timestamp now and admits; with a timestamp strictly
\* more than 60 seconds before now it sets the count to 0 and the timestamp
\* to now and admits; otherwise, at exactly 60 seconds too, it admits iff the
\* count is below 5 and changes nothing.
C27_AllowDecidesAsStated ==
    \A u \in Usernames, at \in ProbeTimes :
        LET chk == check_rate_limit(login_attempts, u, at)
            fresh == [attempts |-> 0, last_attempt_time |-> at]
        IN IF u \notin DOMAIN login_attempts
           THEN /\ chk.ok
                /\ DOMAIN chk.la = DOMAIN login_attempts \cup {u}
                /\ chk.la[u] = fresh
                /\ \A v \in DOMAIN login_attempts : chk.la[v] = login_attempts[v]
           ELSE IF login_attempts[u].last_attempt_time < at - 60
           THEN /\ chk.ok
                /\ DOMAIN chk.la = DOMAIN login_attempts
                /\ chk.la[u] = fresh
                /\ \A v \in DOMAIN login_attempts \ {u} :
                       chk.la[v] = login_attempts[v]
           ELSE /\ chk.ok <=> login_attempts[u].attempts < 5
                /\ chk.la = login_attempts

\* C27 witness: the count is 5 and the stored timestamp exactly 60 seconds
\* old, so the limiter refuses now and admits a second later.
C27_Witness ==
    /\ "alice" \in DOMAIN login_attempts
    /\ login_attempts["alice"].attempts = 5
    /\ now - login_attempts["alice"].last_attempt_time = 60
    /\ ~check_rate_limit(login_attempts, "alice", now).ok
    /\ check_rate_limit(login_attempts, "alice", now + 1).ok

\* C28: in every reachable state the counter of each username is an integer
\* from 0 to 5; it never exceeds the cap, since only admitted attempts
\* increment it.
C28_CounterWithinCap ==
    \A u \in DOMAIN login_attempts :
        /\ login_attempts[u].attempts \in 0..5
        /\ login_attempts[u].last_attempt_time \in 0..now

\* C28 witness: the counter is at the cap and one more attempt was refused.
C28_Witness ==
    /\ response.op = "login"
    /\ response.status = 429
    /\ login_attempts[response.username].attempts = 5

\* C29: a login attempt answered 429 changes neither the counter nor the
\* stored timestamp of the username, so refused attempts do not prolong a
\* lockout: the first attempt made more than 60 seconds after the last
\* admitted one is admitted.
C29_RefusedAttemptsLeaveNoTrace ==
    [][\A u \in LimiterUsers, p \in LimiterPasswords :
          (response'.op = "login" /\ login_user(u, p))
          => /\ response'.status = 429 => login_attempts' = login_attempts
             /\ (/\ LockoutOf(u).admitted >= 0
                 /\ now - LockoutOf(u).admitted > 60)
                => response'.status # 429]_vars

\* C29 witness: an attempt refused 20 seconds ago, 60 seconds after the
\* last admitted one, did not keep the next attempt from being admitted.
C29_Witness ==
    /\ response.op = "login"
    /\ response.status = 200
    /\ LockoutOf("alice").admitted = now
    /\ LockoutOf("alice").rejected = now - 20
    /\ login_attempts["alice"].attempts = 1

\* C30: the limiter is isolated per username: a login attempt for username A
\* changes neither the limiter state of another username B nor the outcome
\* of any login attempt for B, so locking out A does not lock out B.
C30_LimiterIsPerUsername ==
    [][\A a \in Usernames, p \in AuthPasswords :
          (/\ response'.op = "login"
           /\ response'.username = a
           /\ login_user(a, p))
          => \A b \in Usernames \ {a} :
                /\ LimiterState(login_attempts', b) = LimiterState(login_attempts, b)
                /\ \A q \in AuthPasswords :
                       LET before == login_result(users_db, login_attempts,
                                                  b, q, now)
                           after == login_result(users_db', login_attempts',
                                                 b, q, now')
                       IN /\ after.status = before.status
                          /\ after.token = before.token]_vars

\* C30 witness: bob has logged in while alice is locked out.
C30_Witness ==
    /\ response.op = "login"
    /\ response.username = "bob"
    /\ response.status = 200
    /\ "alice" \in DOMAIN login_attempts
    /\ login_attempts["alice"].attempts = 5
    /\ ~check_rate_limit(login_attempts, "alice", now).ok

====
